---- MODULE Spec2Model ----
(***************************************************************************)
(* Model of generate_files.py: the mode dispatch of the script (help, fix, *)
(* debug, generate), the single completion request, and save_java_files    *)
(* (fenced block extraction, filename resolution, file writes).            *)
(*                                                                         *)
(* Text is a sequence of one-character strings; positions are 1-based      *)
(* (Python's are 0-based).  The backtick character is the atom Tick.       *)
(* Paths follow posixpath (the script is run as "python3 ..." ).           *)
(***************************************************************************)
EXTENDS Integers, Sequences, FiniteSets, TLC

VARIABLES
    argv,         \* the flags on the command line (sys.argv)
    cwd,          \* the input files present in the working directory
    files,        \* the files of OUTPUT_DIR: path -> content
    pc,           \* the position of the script
    mode,         \* the branch of the dispatch that runs
    requests,     \* the number of completion requests sent
    response,     \* "none", "pending", "error" or "ok"
    reply,        \* the text call_openai returned
    timestamp,    \* the run timestamp
    code_blocks,  \* save_java_files: the bodies re.findall returned
    spans,        \* where each of them lies in reply (history)
    idx,          \* save_java_files: the loop index
    writes,       \* every file write of the run, in order (history)
    console,      \* the messages printed, in order
    exit_code,    \* Running, or the exit status of the process
    opened        \* the input files the run has opened (history)

vars == <<argv, cwd, files, pc, mode, requests, response, reply, timestamp,
          code_blocks, spans, idx, writes, console, exit_code, opened>>

(***************************************************************************)
(* Characters and character classes used by the regular expressions.       *)
(***************************************************************************)
Tick == "tick"

UpperSeq == <<"A","B","C","D","E","F","G","H","I","J","K","L","M","N","O","P","Q","R","S","T","U","V","W","X","Y","Z">>
LowerSeq == <<"a","b","c","d","e","f","g","h","i","j","k","l","m","n","o","p","q","r","s","t","u","v","w","x","y","z">>
DigitSeq == <<"0","1","2","3","4","5","6","7","8","9">>

Range(s) == {s[i] : i \in DOMAIN s}

\* \s of the re module (ASCII part) and the characters str.strip() removes
Whitespace == {" ", "\t", "\n", "\r", "\f"}

\* \w of the re module (ASCII part)
WordChars == Range(UpperSeq) \cup Range(LowerSeq) \cup Range(DigitSeq) \cup {"_"}

\* [A-Za-z_], the first character of an identifier in the declaration patterns
IdentStart == Range(UpperSeq) \cup Range(LowerSeq) \cup {"_"}

\* [A-Za-z0-9_./\\-], the characters of a marker token
TokenChars == WordChars \cup {".", "/", "\\", "-"}

\* str.lower() on one character
LowerOf(c) ==
    IF \E i \in DOMAIN UpperSeq : UpperSeq[i] = c
    THEN LowerSeq[CHOOSE i \in DOMAIN UpperSeq : UpperSeq[i] = c]
    ELSE c

\* str.lower()
ToLower(s) == [i \in DOMAIN s |-> LowerOf(s[i])]

Min(S) == CHOOSE x \in S : \A y \in S : x <= y
Max(S) == CHOOSE x \in S : \A y \in S : x >= y

\* the character at position i, or "" outside the text
At(s, i) == IF i >= 1 /\ i <= Len(s) THEN s[i] ELSE ""

\* the literal lit occurs in s at position i
StartsAt(s, i, lit) ==
    /\ i >= 1
    /\ i + Len(lit) - 1 <= Len(s)
    /\ \A k \in DOMAIN lit : s[i + k - 1] = lit[k]

\* the same under re.IGNORECASE
StartsAtI(s, i, lit) ==
    /\ i >= 1
    /\ i + Len(lit) - 1 <= Len(s)
    /\ \A k \in DOMAIN lit : LowerOf(s[i + k - 1]) = LowerOf(lit[k])

\* position of the first occurrence of lit at or after i, 0 when there is none
FindFrom(s, i, lit) ==
    LET C == {j \in i..(Len(s) - Len(lit) + 1) : StartsAt(s, j, lit)}
    IN  IF C = {} THEN 0 ELSE Min(C)

\* end of a greedy \s* starting at i: the first position at or after i that
\* holds no whitespace (Len(s)+1 at the end of the text)
SkipSpaces(s, i) ==
    Min({j \in i..(Len(s) + 1) : At(s, j) \notin Whitespace})

\* end of a greedy run of characters of class cls starting at i
RunEnd(s, i, cls) ==
    Min({j \in i..(Len(s) + 1) : At(s, j) \notin cls})

\* str.strip()
Strip(s) ==
    LET I == {i \in DOMAIN s : s[i] \notin Whitespace}
    IN  IF I = {} THEN <<>> ELSE SubSeq(s, Min(I), Max(I))

\* str(n) for n >= 0
RECURSIVE DecStr(_)
DecStr(n) ==
    IF n < 10 THEN <<DigitSeq[n + 1]>>
    ELSE DecStr(n \div 10) \o <<DigitSeq[(n % 10) + 1]>>

\* all concatenations of at most n fragments of F
RECURSIVE Concats(_, _)
Concats(F, n) ==
    IF n = 0 THEN {<<>>}
    ELSE LET S == Concats(F, n - 1) IN S \cup {s \o f : s \in S, f \in F}

(***************************************************************************)
(* Configuration (module level of the script).                             *)
(***************************************************************************)
OUTPUT_DIR == <<".","/","o","u","t","p","u","t">>
PROMPT_FILE == <<"p","r","o","m","p","t",".","t","x","t">>
PDF_FILE == <<"k","l","a","u","s","u","r",".","p","d","f">>
ERROR_FILE == <<"e","r","r","o","r",".","t","x","t">>
DEBUG_FILE == <<"d","e","b","u","g",".","t","x","t">>

\* posixpath.join of two components
PathJoin(a, b) ==
    IF At(b, 1) = "/" THEN b
    ELSE IF a = <<>> \/ At(a, Len(a)) = "/" THEN a \o b
    ELSE a \o <<"/">> \o b

\* posixpath.basename: what follows the last "/"
Basename(p) ==
    LET S == {i \in DOMAIN p : p[i] = "/"}
    IN  IF S = {} THEN p ELSE SubSeq(p, Max(S) + 1, Len(p))

RESULT_FILE == PathJoin(OUTPUT_DIR, <<"r","e","s","u","l","t",".","m","d">>)
RESPONSE_FILE == PathJoin(OUTPUT_DIR, <<"r","e","s","p","o","n","s","e",".","m","d">>)

\* str.endswith
EndsWith(s, suffix) ==
    Len(s) >= Len(suffix) /\ SubSeq(s, Len(s) - Len(suffix) + 1, Len(s)) = suffix

\* the file opened with "a": the content is added to what the file holds
WriteFileAppend(fs, path, content) ==
    [p \in (DOMAIN fs) \cup {path} |->
        IF p # path THEN fs[p]
        ELSE IF path \in DOMAIN fs THEN fs[path] \o content ELSE content]

\* the file system: open(path, "w") followed by write(content)
WriteFile(fs, path, content) ==
    [p \in (DOMAIN fs) \cup {path} |-> IF p = path THEN content ELSE fs[p]]

NoFiles == [p \in {} |-> <<>>]

(***************************************************************************)
(* save_java_files: block extraction.                                      *)
(***************************************************************************)
Fence == <<Tick,Tick,Tick>>

\* the tag matched without re.IGNORECASE
TagLenCaseSensitive(s, p) == IF StartsAt(s, p, <<"j","a","v","a">>) THEN 4 ELSE 0

\* (?:java)? under re.IGNORECASE: the length of the tag consumed at p
TagLen(s, p) == IF StartsAtI(s, p, <<"j","a","v","a">>) THEN 4 ELSE 0

\* re.findall of the fence pattern, scanning from position i.  Each match is
\* kept with its span: start (the opening fence), from..to (group 1, the
\* body), and the position after the closing fence.
RECURSIVE FindAllFrom(_, _)
FindAllFrom(s, i) ==
    LET o == FindFrom(s, i, Fence) IN
    IF o = 0 THEN <<>>
    ELSE LET b == o + 3 + TagLen(s, o + 3)
             c == FindFrom(s, b, Fence)
         IN  IF c = 0 THEN <<>>
             ELSE <<[start |-> o, from |-> b, to |-> c - 1]>>
                  \o FindAllFrom(s, c + 3)

FindAll(s) == FindAllFrom(s, 1)

(***************************************************************************)
(* save_java_files: filename resolution.                                   *)
(***************************************************************************)
\* The marker pattern //\s*File\s*:\s*([A-Za-z0-9_./\\-]+) under
\* re.IGNORECASE tried at position p: group 1, or <<>> when it does not match
MarkerTokenAt(s, p) ==
    IF ~StartsAt(s, p, <<"/","/">>) THEN <<>>
    ELSE LET a == SkipSpaces(s, p + 2) IN
         IF ~StartsAtI(s, a, <<"F","i","l","e">>) THEN <<>>
         ELSE LET b == SkipSpaces(s, a + 4) IN
              IF At(s, b) # ":" THEN <<>>
              ELSE LET c == SkipSpaces(s, b + 1)
                   IN  SubSeq(s, c, RunEnd(s, c, TokenChars) - 1)

\* re.search of the marker pattern: group 1 of the first match, <<>> if none
MarkerToken(s) ==
    LET P == {p \in DOMAIN s : MarkerTokenAt(s, p) # <<>>}
    IN  IF P = {} THEN <<>> ELSE MarkerTokenAt(s, Min(P))

\* first position at or after i that holds a newline, Len(s)+1 if none: where
\* $ first matches under re.MULTILINE
LineEnd(s, i) ==
    Min({j \in i..(Len(s) + 1) : j = Len(s) + 1 \/ At(s, j) = "\n"})

\* re.sub(r"//.*?$|/\*.*?\*/", "", s, flags=re.DOTALL | re.MULTILINE)
RECURSIVE RemoveCommentsFrom(_, _)
RemoveCommentsFrom(s, i) ==
    IF i > Len(s) THEN <<>>
    ELSE IF StartsAt(s, i, <<"/","/">>) THEN RemoveCommentsFrom(s, LineEnd(s, i + 2))
    ELSE IF StartsAt(s, i, <<"/","*">>) /\ FindFrom(s, i + 2, <<"*","/">>) # 0
         THEN RemoveCommentsFrom(s, FindFrom(s, i + 2, <<"*","/">>) + 2)
    ELSE <<s[i]>> \o RemoveCommentsFrom(s, i + 1)

RemoveComments(s) == RemoveCommentsFrom(s, 1)

Keywords == {<<"c","l","a","s","s">>, <<"i","n","t","e","r","f","a","c","e">>, <<"e","n","u","m">>, <<"r","e","c","o","r","d">>}

\* \b at position p
WordBoundary(s, p) == (At(s, p - 1) \in WordChars) # (At(s, p) \in WordChars)

\* The declaration pattern \b(?:public\s+)?(class|interface|enum|record)\s+
\* ([A-Za-z_]\w*) tried at position p: group 2, or <<>> when it does not match
TypeNameAt(s, p) ==
    IF ~WordBoundary(s, p) THEN <<>>
    ELSE LET k == IF StartsAt(s, p, <<"p","u","b","l","i","c">>) /\ At(s, p + 6) \in Whitespace
                  THEN SkipSpaces(s, p + 6) ELSE p
             K == {kw \in Keywords : StartsAt(s, k, kw)}
         IN  IF K = {} THEN <<>>
             ELSE LET kw == CHOOSE w \in K : TRUE
                      n == SkipSpaces(s, k + Len(kw))
                  IN  IF n = k + Len(kw) \/ At(s, n) \notin IdentStart THEN <<>>
                      ELSE SubSeq(s, n, RunEnd(s, n, WordChars) - 1)

\* re.search of the declaration pattern: group 2 of the first match
TypeName(s) ==
    LET P == {p \in DOMAIN s : TypeNameAt(s, p) # <<>>}
    IN  IF P = {} THEN <<>> ELSE TypeNameAt(s, Min(P))

\* the marker branch: raw_name, ".java" added unless it ends with it in any
\* letter case, then the base name under OUTPUT_DIR
MarkerFilename(token) ==
    LET raw_name == IF EndsWith(ToLower(token), <<".","j","a","v","a">>) THEN token
                    ELSE token \o <<".","j","a","v","a">>
    IN  PathJoin(OUTPUT_DIR, Basename(raw_name))

TypeFilename(typename) == PathJoin(OUTPUT_DIR, typename \o <<".","j","a","v","a">>)

\* the fallback name without the block index
FallbackFilenameNoIndex(ts, i) ==
    PathJoin(OUTPUT_DIR, <<"U","n","k","n","o","w","n","_">> \o ts \o <<".","j","a","v","a">>)

FallbackFilename(ts, i) ==
    PathJoin(OUTPUT_DIR, <<"U","n","k","n","o","w","n","_">> \o ts \o <<"_">> \o DecStr(i) \o <<".","j","a","v","a">>)

\* which of the three steps names the block
ResolveStep(block) ==
    IF MarkerToken(block) # <<>> THEN "marker"
    ELSE IF TypeName(RemoveComments(block)) # <<>> THEN "declaration"
    ELSE "fallback"

\* the declaration scan tried before the marker
ResolveFilenameScanFirst(block, ts, i) ==
    IF TypeName(RemoveComments(block)) # <<>>
    THEN TypeFilename(TypeName(RemoveComments(block)))
    ELSE IF MarkerToken(block) # <<>> THEN MarkerFilename(MarkerToken(block))
    ELSE FallbackFilename(ts, i)

\* the filename chosen for one trimmed block
ResolveFilename(block, ts, i) ==
    IF MarkerToken(block) # <<>> THEN MarkerFilename(MarkerToken(block))
    ELSE IF TypeName(RemoveComments(block)) # <<>>
         THEN TypeFilename(TypeName(RemoveComments(block)))
    ELSE FallbackFilename(ts, i)

(***************************************************************************)
(* Inputs: the command line, the files found, the replies of the endpoint. *)
(***************************************************************************)
MaxBlocks == 2
MaxFrags == 6
MaxParts == 3

Flags == {"--help", "--fix", "--debug"}
InputFiles == {PROMPT_FILE, PDF_FILE, ERROR_FILE, DEBUG_FILE}

\* what OUTPUT_DIR may hold before the run
OldJava == PathJoin(OUTPUT_DIR, <<"F","o","o",".","j","a","v","a">>)
InitialOutputs ==
    {NoFiles,
     WriteFile(NoFiles, OldJava, <<"c","l","a","s","s"," ","F","o","o"," ","{"," ","o","l","d"," ","}","\n">>),
     WriteFile(NoFiles, RESULT_FILE, <<"o","l","d"," ","r","e","s","u","l","t">>),
     WriteFile(WriteFile(NoFiles, OldJava, <<"c","l","a","s","s"," ","F","o","o"," ","{"," ","o","l","d"," ","}","\n">>),
               RESULT_FILE, <<"o","l","d"," ","r","e","s","u","l","t">>)}

\* datetime.now().strftime("%Y%m%d_%H%M%S")
Timestamps == {<<"2","0","2","5","0","1","0","1","_","1","2","0","0","0","0">>, <<"2","0","2","5","1","2","3","1","_","2","3","5","9","5","9">>}

\* fenced blocks a reply may hold
MainBlocks ==
    {<<Tick,Tick,Tick,"j","a","v","a","\n","p","u","b","l","i","c"," ","c","l","a","s","s"," ","F","o","o"," ","{","}","\n",Tick,Tick,Tick>>,
     <<Tick,Tick,Tick,"j","a","v","a","\n","c","l","a","s","s"," ","F","o","o"," ","{"," ","i","n","t"," ","x",";"," ","}","\n",Tick,Tick,Tick>>,
     <<Tick,Tick,Tick,"J","a","v","a","\n","/","/"," ","F","i","l","e",":"," ","F","o","o",".","j","a","v","a","\n","c","l","a","s","s"," ","B","a","r"," ","{","}","\n",Tick,Tick,Tick>>,
     <<Tick,Tick,Tick,"\n","i","n","t"," ","x"," ","="," ","1",";","\n",Tick,Tick,Tick>>,
     <<Tick,Tick,Tick,"j","a","v","a","\n"," ","\n",Tick,Tick,Tick>>,
     <<Tick,Tick,Tick,"j","a","v","a","\n","i","n","t","e","r","f","a","c","e"," ","S","h","a","p","e"," ","{","}","\n",Tick,Tick,Tick>>}

\* a reply with 1..n blocks, each on its own line after a line of prose
RECURSIVE BlockTexts(_)
BlockTexts(n) ==
    IF n = 0 THEN {<<"H","e","r","e",":">>}
    ELSE {t \o <<"\n">> \o b : t \in BlockTexts(n - 1), b \in MainBlocks}

Replies ==
    {<<>>, <<"S","o","r","r","y",","," ","n","o"," ","c","o","d","e",".">>, <<Tick,Tick,Tick," ","d","a","n","g","l","i","n","g">>}
    \cup UNION {BlockTexts(n) : n \in 1..MaxBlocks}

\* replies that exercise the fence pattern
ExtractFrags == {Fence, <<Tick>>, <<"J","a","V","a">>, <<"p","y","\n">>, <<" ","x","\n">>}
ExtractReplies == Concats(ExtractFrags, MaxFrags)

\* replies with one block that exercise the filename resolution
BodyFrags ==
    {<<"/","/"," ","F","i","l","e",":"," ","F","o","o",".","t","x","t","\n">>,
     <<"/","/","f","i","l","e"," ",":"," ","s","r","c","/","M","y","-","F","i","l","e",".","J","A","V","A","\n">>,
     <<"/","/"," ","F","i","l","e",":"," ","a","\\","b","\n">>,
     <<"c","l","a","s","s"," ","B","a","r"," ","{","}","\n">>,
     <<"p","u","b","l","i","c"," "," ","r","e","c","o","r","d"," ","C","a","l","c","u","l","a","t","o","r","(",")"," ","{","}","\n">>,
     <<"/","/"," ","c","l","a","s","s"," ","D","u","m","m","y","\n">>,
     <<"/","*"," ","e","n","u","m"," ","E"," ","*","/"," ">>,
     <<"S","t","r","i","n","g"," ","s"," ","="," ","\"","/","/"," ","c","l","a","s","s"," ","F","a","k","e","\"",";","\n">>,
     <<"f","(","\"","/","/","\"",")",";"," ">>,
     <<"c","h","a","r"," ","q"," ","="," ","'","\"","'",";"," ">>,
     <<"i","n","t"," ","x",";","\n">>}
ResolveReplies ==
    {<<Tick,Tick,Tick,"j","a","v","a","\n">> \o b \o <<Tick,Tick,Tick>> : b \in Concats(BodyFrags, MaxParts)}

SaveReplies == ExtractReplies \cup ResolveReplies

Running == -1

(***************************************************************************)
(* The main dispatch (module level of the script).                         *)
(***************************************************************************)
\* the chain with --fix tested before --help
SelectedModeFixFirst(a) ==
    IF "--fix" \in a THEN "fix"
    ELSE IF "--help" \in a THEN "help"
    ELSE IF "--debug" \in a THEN "debug"
    ELSE "generate"

\* the if / elif chain on sys.argv
SelectedMode(a) ==
    IF "--help" \in a THEN "help"
    ELSE IF "--fix" \in a THEN "fix"
    ELSE IF "--debug" \in a THEN "debug"
    ELSE "generate"

\* os.listdir(OUTPUT_DIR) filtered by fname.endswith(".java")
JavaFiles(fs) == {p \in DOMAIN fs : EndsWith(p, <<".","j","a","v","a">>)}

Init ==
    /\ argv \in SUBSET Flags
    /\ cwd \in SUBSET InputFiles
    /\ files \in InitialOutputs
    /\ pc = "start"
    /\ mode = "none"
    /\ requests = 0
    /\ response = "none"
    /\ reply = <<>>
    /\ timestamp = <<>>
    /\ code_blocks = <<>>
    /\ spans = <<>>
    /\ idx = 0
    /\ writes = <<>>
    /\ console = <<>>
    /\ exit_code = Running
    /\ opened = {}

\* the process ends with status code after printing msgs
Exit(code, msgs) ==
    /\ pc' = "exit"
    /\ exit_code' = code
    /\ console' = console \o msgs

\* call_openai is entered: the request is sent and the script blocks on it
CallOpenAI(msgs) ==
    /\ pc' = "request"
    /\ requests' = requests + 1
    /\ response' = "pending"
    /\ console' = console \o msgs \o <<"sending">>
    /\ UNCHANGED exit_code

Help ==
    /\ pc = "start"
    /\ SelectedMode(argv) = "help"
    /\ mode' = "help"
    /\ Exit(0, <<"help">>)
    /\ UNCHANGED <<argv, cwd, files, requests, response, reply, timestamp,
                   code_blocks, spans, idx, writes, opened>>

FixNoJavaFiles ==
    /\ pc = "start"
    /\ SelectedMode(argv) = "fix"
    /\ JavaFiles(files) = {}
    /\ mode' = "fix"
    /\ Exit(1, <<"fix-mode", "no-java-files">>)
    /\ UNCHANGED <<argv, cwd, files, requests, response, reply, timestamp,
                   code_blocks, spans, idx, writes, opened>>

FixNoErrorFile ==
    /\ pc = "start"
    /\ SelectedMode(argv) = "fix"
    /\ JavaFiles(files) # {}
    /\ ERROR_FILE \notin cwd
    /\ mode' = "fix"
    /\ opened' = JavaFiles(files)
    /\ Exit(1, <<"fix-mode", "error-file-missing">>)
    /\ UNCHANGED <<argv, cwd, files, requests, response, reply, timestamp,
                   code_blocks, spans, idx, writes>>

FixCall ==
    /\ pc = "start"
    /\ SelectedMode(argv) = "fix"
    /\ JavaFiles(files) # {}
    /\ ERROR_FILE \in cwd
    /\ mode' = "fix"
    /\ opened' = JavaFiles(files) \cup {ERROR_FILE}
    /\ CallOpenAI(<<"fix-mode">>)
    /\ UNCHANGED <<argv, cwd, files, reply, timestamp, code_blocks, spans,
                   idx, writes>>

DebugNoDebugFile ==
    /\ pc = "start"
    /\ SelectedMode(argv) = "debug"
    /\ DEBUG_FILE \notin cwd
    /\ mode' = "debug"
    /\ Exit(1, <<"debug-mode", "debug-file-missing">>)
    /\ UNCHANGED <<argv, cwd, files, requests, response, reply, timestamp,
                   code_blocks, spans, idx, writes, opened>>

DebugNoResultFile ==
    /\ pc = "start"
    /\ SelectedMode(argv) = "debug"
    /\ DEBUG_FILE \in cwd
    /\ RESULT_FILE \notin DOMAIN files
    /\ mode' = "debug"
    /\ Exit(1, <<"debug-mode", "result-file-missing">>)
    /\ UNCHANGED <<argv, cwd, files, requests, response, reply, timestamp,
                   code_blocks, spans, idx, writes, opened>>

\* debug mode without the check that the result file exists
DebugCallUnchecked ==
    /\ pc = "start"
    /\ SelectedMode(argv) = "debug"
    /\ DEBUG_FILE \in cwd
    /\ mode' = "debug"
    /\ opened' = {DEBUG_FILE, RESULT_FILE}
    /\ CallOpenAI(<<"debug-mode">>)
    /\ UNCHANGED <<argv, cwd, files, reply, timestamp, code_blocks, spans,
                   idx, writes>>

DebugCall ==
    /\ pc = "start"
    /\ SelectedMode(argv) = "debug"
    /\ DEBUG_FILE \in cwd
    /\ RESULT_FILE \in DOMAIN files
    /\ mode' = "debug"
    /\ opened' = {DEBUG_FILE, RESULT_FILE}
    /\ CallOpenAI(<<"debug-mode">>)
    /\ UNCHANGED <<argv, cwd, files, reply, timestamp, code_blocks, spans,
                   idx, writes>>

\* open(PROMPT_FILE) raises FileNotFoundError, which nothing catches: the
\* interpreter prints the traceback and exits with status 1
GenerateNoPrompt ==
    /\ pc = "start"
    /\ SelectedMode(argv) = "generate"
    /\ PROMPT_FILE \notin cwd
    /\ mode' = "generate"
    /\ Exit(1, <<"traceback">>)
    /\ UNCHANGED <<argv, cwd, files, requests, response, reply, timestamp,
                   code_blocks, spans, idx, writes, opened>>

\* pdf_to_text(PDF_FILE) raises FileNotFoundError in the same way
GenerateNoPdf ==
    /\ pc = "start"
    /\ SelectedMode(argv) = "generate"
    /\ PROMPT_FILE \in cwd
    /\ PDF_FILE \notin cwd
    /\ mode' = "generate"
    /\ opened' = {PROMPT_FILE}
    /\ Exit(1, <<"traceback">>)
    /\ UNCHANGED <<argv, cwd, files, requests, response, reply, timestamp,
                   code_blocks, spans, idx, writes>>

GenerateCall ==
    /\ pc = "start"
    /\ SelectedMode(argv) = "generate"
    /\ PROMPT_FILE \in cwd
    /\ PDF_FILE \in cwd
    /\ mode' = "generate"
    /\ opened' = {PROMPT_FILE, PDF_FILE}
    /\ CallOpenAI(<<"pdf-loaded">>)
    /\ UNCHANGED <<argv, cwd, files, reply, timestamp, code_blocks, spans,
                   idx, writes>>

\* a failed request sent again (up to three requests)
RequestFailsRetry ==
    /\ pc = "request"
    /\ requests < 3
    /\ requests' = requests + 1
    /\ console' = Append(console, "sending")
    /\ UNCHANGED <<argv, cwd, files, pc, mode, response, reply, timestamp,
                   code_blocks, spans, idx, writes, exit_code, opened>>

\* requests.post raises (transport error), raise_for_status raises (non-2xx)
\* or the body lacks choices[0].message.content: nothing catches it
RequestFails ==
    /\ pc = "request"
    /\ response' = "error"
    /\ Exit(1, <<"traceback">>)
    /\ UNCHANGED <<argv, cwd, files, mode, requests, reply, timestamp,
                   code_blocks, spans, idx, writes, opened>>

RequestReturns ==
    /\ pc = "request"
    /\ \E r \in Replies : reply' = r
    /\ response' = "ok"
    /\ pc' = "replied"
    /\ UNCHANGED <<argv, cwd, files, mode, requests, timestamp, code_blocks,
                   spans, idx, writes, console, exit_code, opened>>

\* the name of the transcript of the run
TranscriptFile(m, ts) ==
    PathJoin(OUTPUT_DIR,
             (IF m = "fix" THEN <<"f","i","x","_">> ELSE <<"r","e","s","u","l","t","_">>) \o ts \o <<".","m","d">>)

\* fix and generate: the timestamp is taken and the reply saved as it is
SaveTranscript ==
    /\ pc = "replied"
    /\ mode \in {"fix", "generate"}
    /\ \E ts \in Timestamps :
          /\ timestamp' = ts
          /\ files' = WriteFile(files, TranscriptFile(mode, ts), reply)
          /\ writes' = Append(writes, [path |-> TranscriptFile(mode, ts),
                                       content |-> reply, idx |-> 0,
                                       step |-> "transcript"])
    /\ console' = Append(console,
                         IF mode = "fix" THEN "fix-saved" ELSE "result-saved")
    /\ pc' = "save"
    /\ UNCHANGED <<argv, cwd, mode, requests, response, reply, code_blocks,
                   spans, idx, exit_code, opened>>

\* debug: the reply goes to the response file and the script ends
DebugWriteResponse ==
    /\ pc = "replied"
    /\ mode = "debug"
    /\ files' = WriteFile(files, RESPONSE_FILE, reply)
    /\ writes' = Append(writes, [path |-> RESPONSE_FILE, content |-> reply,
                                 idx |-> 0, step |-> "response"])
    /\ Exit(0, <<"debug-saved">>)
    /\ UNCHANGED <<argv, cwd, mode, requests, response, reply, timestamp,
                   code_blocks, spans, idx, opened>>

(***************************************************************************)
(* save_java_files(reply, timestamp).                                      *)
(***************************************************************************)
\* no block found treated as a failure of the run
SaveStartRaises ==
    /\ pc = "save"
    /\ spans' = FindAll(reply)
    /\ code_blocks' = [k \in DOMAIN FindAll(reply) |->
                         SubSeq(reply, FindAll(reply)[k].from,
                                FindAll(reply)[k].to)]
    /\ IF FindAll(reply) = <<>>
       THEN /\ Exit(1, <<"no-blocks">>)
            /\ idx' = idx
       ELSE /\ console' = console
            /\ pc' = "loop"
            /\ idx' = 1
            /\ exit_code' = exit_code
    /\ UNCHANGED <<argv, cwd, files, mode, requests, response, reply,
                   timestamp, writes, opened>>

\* re.findall, and the early return when it finds nothing
SaveStart ==
    /\ pc = "save"
    /\ spans' = FindAll(reply)
    /\ code_blocks' = [k \in DOMAIN FindAll(reply) |->
                         SubSeq(reply, FindAll(reply)[k].from,
                                FindAll(reply)[k].to)]
    /\ IF FindAll(reply) = <<>>
       THEN /\ console' = Append(console, "no-blocks")
            /\ pc' = "return"
            /\ idx' = idx
       ELSE /\ console' = console
            /\ pc' = "loop"
            /\ idx' = 1
    /\ UNCHANGED <<argv, cwd, files, mode, requests, response, reply,
                   timestamp, writes, exit_code, opened>>

\* one iteration of the loop over enumerate(code_blocks, start=1)
SaveBlock ==
    /\ pc = "loop"
    /\ idx <= Len(code_blocks)
    /\ LET original_block == Strip(code_blocks[idx]) IN
       IF original_block = <<>>
       THEN UNCHANGED <<files, writes, console>>
       ELSE LET filename == ResolveFilename(original_block, timestamp, idx) IN
            /\ files' = WriteFile(files, filename,
                                  Strip(original_block) \o <<"\n">>)
            /\ writes' = Append(writes,
                    [path |-> filename,
                     content |-> Strip(original_block) \o <<"\n">>,
                     idx |-> idx, step |-> ResolveStep(original_block)])
            /\ console' = Append(console, "created")
    /\ idx' = idx + 1
    /\ UNCHANGED <<argv, cwd, mode, pc, requests, response, reply, timestamp,
                   code_blocks, spans, exit_code, opened>>

\* the loop is exhausted and save_java_files returns
SaveReturn ==
    /\ pc = "loop"
    /\ idx > Len(code_blocks)
    /\ pc' = "return"
    /\ UNCHANGED <<argv, cwd, files, mode, requests, response, reply,
                   timestamp, code_blocks, spans, idx, writes, console,
                   exit_code, opened>>

\* after save_java_files: fix mode prints its last line; the script ends
Finish ==
    /\ pc = "return"
    /\ Exit(0, IF mode = "fix" THEN <<"overwritten">> ELSE <<>>)
    /\ UNCHANGED <<argv, cwd, files, mode, requests, response, reply,
                   timestamp, code_blocks, spans, idx, writes, opened>>

NextSave == SaveStart \/ SaveBlock \/ SaveReturn \/ Finish

Next ==
    \/ Help
    \/ FixNoJavaFiles \/ FixNoErrorFile \/ FixCall
    \/ DebugNoDebugFile \/ DebugNoResultFile \/ DebugCall
    \/ GenerateNoPrompt \/ GenerateNoPdf \/ GenerateCall
    \/ RequestFails \/ RequestReturns
    \/ SaveTranscript \/ DebugWriteResponse
    \/ NextSave

Spec == Init /\ [][Next]_vars

\* save_java_files on its own: the state in which generate mode calls it,
\* for every reply of SaveReplies
InitSave ==
    /\ argv = {}
    /\ cwd = {PROMPT_FILE, PDF_FILE}
    /\ mode = "generate"
    /\ pc = "save"
    /\ requests = 1
    /\ response = "ok"
    /\ reply \in SaveReplies
    /\ timestamp = <<"2","0","2","5","0","1","0","1","_","1","2","0","0","0","0">>
    /\ files = WriteFile(NoFiles, TranscriptFile("generate", timestamp), reply)
    /\ writes = <<[path |-> TranscriptFile("generate", timestamp),
                   content |-> reply, idx |-> 0, step |-> "transcript"]>>
    /\ code_blocks = <<>>
    /\ spans = <<>>
    /\ idx = 0
    /\ console = <<"pdf-loaded", "sending", "result-saved">>
    /\ exit_code = Running
    /\ opened = {PROMPT_FILE, PDF_FILE}

SpecSave == InitSave /\ [][NextSave]_vars

(***************************************************************************)
(* Properties.                                                             *)
(***************************************************************************)
\* the writes save_java_files made, one per named block
BlockWrites == {i \in DOMAIN writes : writes[i].idx > 0}

\* the trimmed block a write of save_java_files came from
BlockOf(w) == Strip(code_blocks[w.idx])

\* re.findall has run
Extracted == pc \in {"loop", "return"} \/ (pc = "exit" /\ spans # <<>>)

\* three backticks at position i
IsFence(r, i) == \A k \in 0..2 : At(r, i + k) = Tick

\* the letters j, a, v, a in any letter case at position i
IsJavaTag(r, i) ==
    /\ At(r, i) \in {"j", "J"}
    /\ At(r, i + 1) \in {"a", "A"}
    /\ At(r, i + 2) \in {"v", "V"}
    /\ At(r, i + 3) \in {"a", "A"}

\* c is raw without its leading and trailing whitespace
TrimOf(c, raw) ==
    IF \A i \in DOMAIN raw : raw[i] \in Whitespace THEN c = <<>>
    ELSE \E i, j \in DOMAIN raw :
           /\ i <= j
           /\ c = SubSeq(raw, i, j)
           /\ raw[i] \notin Whitespace
           /\ raw[j] \notin Whitespace
           /\ \A k \in DOMAIN raw : (k < i \/ k > j) => raw[k] \in Whitespace

\* where the search for the k-th opening fence starts: after the closing
\* fence of the match before it
SearchStart(k) == IF k = 1 THEN 1 ELSE spans[k - 1].to + 4

\* C3 (amended): the extracted bodies are, in reply order, one per fence
\* pair, where an opening fence is the first fence after the previous pair
\* and is closed by the nearest fence that follows it; a fence left without a
\* closing fence yields nothing; the body is the text between the two fences
\* less the tag java (in any letter case) when it directly follows the opening
\* fence, any other tag staying in the body; what is written is the body
\* trimmed.
C3_BlocksAreFencePairs ==
    Extracted =>
      /\ Len(code_blocks) = Len(spans)
      /\ \A k \in DOMAIN spans :
            LET m == spans[k] IN
            /\ m.start >= SearchStart(k)
            /\ IsFence(reply, m.start)
            /\ \A i \in SearchStart(k)..(m.start - 1) : ~IsFence(reply, i)
            /\ m.from = m.start + 3
                          + (IF IsJavaTag(reply, m.start + 3) THEN 4 ELSE 0)
            /\ m.to + 1 >= m.from
            /\ IsFence(reply, m.to + 1)
            /\ \A i \in m.from..m.to : ~IsFence(reply, i)
            /\ code_blocks[k] = SubSeq(reply, m.from, m.to)
      /\ LET F == {i \in SearchStart(Len(spans) + 1)..Len(reply) :
                     IsFence(reply, i)}
         IN  ~ \E o, c \in F : c >= o + 3
      /\ \A i \in BlockWrites :
            /\ writes[i].content # <<>>
            /\ writes[i].content[Len(writes[i].content)] = "\n"
            /\ TrimOf(SubSeq(writes[i].content, 1, Len(writes[i].content) - 1),
                      code_blocks[writes[i].idx])

\* a reply whose block carries the tag JaVa, has whitespace to trim, and is
\* followed by a fence that nothing closes; the block has been written
C3_Witness ==
    /\ pc = "return"
    /\ Len(spans) = 1
    /\ IsJavaTag(reply, spans[1].start + 3)
    /\ code_blocks[1] # Strip(code_blocks[1])
    /\ \E o \in (spans[1].to + 4)..Len(reply) : IsFence(reply, o)
    /\ BlockWrites # {}

\* the language tag of an opening fence whose body starts at p: the letters
\* that directly follow the fence up to the end of the line
LanguageTagLen(r, p) ==
    LET e == RunEnd(r, p, Range(UpperSeq) \cup Range(LowerSeq))
    IN  IF e > p /\ At(r, e) = "\n" THEN e - p ELSE 0

\* C3 as claimed: whatever the tag after the opening fence, it is not part
\* of the body.
C3_AnyTagRemoved ==
    Extracted =>
      \A k \in DOMAIN spans :
        Strip(code_blocks[k]) =
          Strip(SubSeq(reply,
                       spans[k].start + 3
                         + LanguageTagLen(reply, spans[k].start + 3),
                       spans[k].to))

\* the last "/"-separated segment of a path-like token
IsLastSegment(seg, full) ==
    /\ \A i \in DOMAIN seg : seg[i] # "/"
    /\ \E pre \in {SubSeq(full, 1, n) : n \in 0..Len(full)} :
          /\ full = pre \o seg
          /\ pre = <<>> \/ pre[Len(pre)] = "/"

\* C1 (amended): a block that contains a filename marker is named from the
\* marker token alone, whether or not it also declares a type: the file is
\* the last segment of the token, to which .java has been appended unless the
\* token already ends in .java (in any letter case); so the token Foo.txt
\* gives Foo.txt.java.
C1_MarkerNamesFile ==
    \A i \in BlockWrites :
      LET tok == MarkerToken(BlockOf(writes[i]))
          full == IF Len(tok) >= 5
                     /\ ToLower(SubSeq(tok, Len(tok) - 4, Len(tok))) = <<".","j","a","v","a">>
                  THEN tok ELSE tok \o <<".","j","a","v","a">>
      IN  tok # <<>> =>
            /\ \E seg \in {SubSeq(full, n, Len(full)) : n \in 1..(Len(full) + 1)} :
                  /\ IsLastSegment(seg, full)
                  /\ writes[i].path = OUTPUT_DIR \o <<"/">> \o seg
            /\ tok = <<"F","o","o",".","t","x","t">> => writes[i].path = <<".","/","o","u","t","p","u","t","/","F","o","o",".","t","x","t",".","j","a","v","a">>

\* a block with the marker Foo.txt that also declares a type has been written
C1_Witness ==
    \E i \in BlockWrites :
      /\ MarkerToken(BlockOf(writes[i])) = <<"F","o","o",".","t","x","t">>
      /\ TypeName(RemoveComments(BlockOf(writes[i]))) = <<"B","a","r">>
      /\ writes[i].path = <<".","/","o","u","t","p","u","t","/","F","o","o",".","t","x","t",".","j","a","v","a">>

\* C1 as claimed: the extension is appended only when the last segment of
\* the token has none, so the token Foo.txt gives Foo.txt.
C1_ExtensionKept ==
    \A i \in BlockWrites :
      LET tok == MarkerToken(BlockOf(writes[i])) IN
      tok # <<>> =>
        \E seg \in {SubSeq(tok, n, Len(tok)) : n \in 1..(Len(tok) + 1)} :
          /\ IsLastSegment(seg, tok)
          /\ writes[i].path =
               OUTPUT_DIR \o <<"/">> \o
               (IF \E k \in DOMAIN seg : seg[k] = "." THEN seg
                ELSE seg \o <<".","j","a","v","a">>)

\* the text with every comment and every string or character literal
\* blanked, scanned from position i in state st: "normal", "line", "block",
\* "single" or "double".  A quote preceded by an odd number of backslashes
\* does not end a literal.
\* the number of backslashes that directly precede position i
BackslashesBefore(s, i) ==
    Max({n \in 0..(i - 1) : \A k \in 1..n : s[i - k] = "\\"})

RECURSIVE MaskFrom(_, _, _)
MaskFrom(s, i, st) ==
    LET Escaped == BackslashesBefore(s, i) % 2 = 1 IN
    IF i > Len(s) THEN <<>>
    ELSE IF st = "normal" THEN
         IF StartsAt(s, i, <<"/","/">>) THEN <<" "," ">> \o MaskFrom(s, i + 2, "line")
         ELSE IF StartsAt(s, i, <<"/","*">>) THEN <<" "," ">> \o MaskFrom(s, i + 2, "block")
         ELSE IF s[i] = "\"" THEN <<" ">> \o MaskFrom(s, i + 1, "double")
         ELSE IF s[i] = "'" THEN <<" ">> \o MaskFrom(s, i + 1, "single")
         ELSE <<s[i]>> \o MaskFrom(s, i + 1, "normal")
    ELSE IF st = "line" THEN
         IF s[i] = "\n" THEN <<"\n">> \o MaskFrom(s, i + 1, "normal")
         ELSE <<" ">> \o MaskFrom(s, i + 1, "line")
    ELSE IF st = "block" THEN
         IF StartsAt(s, i, <<"*","/">>) THEN <<" "," ">> \o MaskFrom(s, i + 2, "normal")
         ELSE <<" ">> \o MaskFrom(s, i + 1, "block")
    ELSE IF st = "double" THEN
         IF s[i] = "\"" /\ ~Escaped THEN <<" ">> \o MaskFrom(s, i + 1, "normal")
         ELSE <<" ">> \o MaskFrom(s, i + 1, "double")
    ELSE IF s[i] = "'" /\ ~Escaped THEN <<" ">> \o MaskFrom(s, i + 1, "normal")
         ELSE <<" ">> \o MaskFrom(s, i + 1, "single")

\* the first type declared outside every comment and every literal
FirstRealTypeName(block) == TypeName(MaskFrom(block, 1, "normal"))

\* C2 as claimed: a block without a marker is named after the first type
\* declaration that lies outside every comment and every string or character
\* literal; a comment delimiter inside a literal hides nothing.
C2_QuoteAwareScan ==
    \A i \in BlockWrites :
      LET block == BlockOf(writes[i]) IN
      (MarkerToken(block) = <<>> /\ FirstRealTypeName(block) # <<>>) =>
        writes[i].path = OUTPUT_DIR \o <<"/">> \o FirstRealTypeName(block) \o <<".","j","a","v","a">>

\* the name without its final extension
Stem(name) ==
    LET D == {k \in DOMAIN name : name[k] = "."}
    IN  IF D = {} THEN name ELSE SubSeq(name, 1, Max(D) - 1)

\* C4 as claimed: every file is written to OUTPUT_DIR joined with one
\* component that holds no "/" and no "\"; the base name of a marker-derived
\* component holds letters, digits and underscores only.
C4_SafeComponent ==
    \A i \in BlockWrites :
      \E comp \in {SubSeq(writes[i].path, n, Len(writes[i].path)) :
                     n \in 1..Len(writes[i].path)} :
        /\ writes[i].path = OUTPUT_DIR \o <<"/">> \o comp
        /\ \A k \in DOMAIN comp : comp[k] \notin {"/", "\\"}
        /\ writes[i].step = "marker" =>
             \A k \in DOMAIN Stem(comp) : Stem(comp)[k] \in WordChars

\* the digits 1..9 as str() writes them
Digit1to9 == <<"1","2","3","4","5","6","7","8","9">>

\* C5 (amended): two blocks of one run that both reach the fallback get
\* different names, Unknown_<timestamp>_<index>.java with the 1-based index
\* of the block (blocks named by a marker or a declaration share a file
\* whenever their names agree).
C5_FallbackNamesDiffer ==
    \A i, j \in BlockWrites :
      (writes[i].step = "fallback" /\ writes[j].step = "fallback") =>
        /\ i # j => writes[i].path # writes[j].path
        /\ writes[i].idx <= 9 =>
             writes[i].path = OUTPUT_DIR \o <<"/","U","n","k","n","o","w","n","_">> \o timestamp \o <<"_">>
                              \o <<Digit1to9[writes[i].idx]>> \o <<".","j","a","v","a">>

\* two blocks of one reply have been named by the fallback
C5_Witness ==
    \E i, j \in BlockWrites :
      /\ i < j
      /\ writes[i].step = "fallback"
      /\ writes[j].step = "fallback"
      /\ writes[i].content = writes[j].content

\* C5 as claimed: any two distinct non-empty blocks at different positions
\* of one reply get different filenames.
C5_NoCollision ==
    \A i, j \in BlockWrites :
      (i # j /\ writes[i].content # writes[j].content)
        => writes[i].path # writes[j].path

\* the reply holds no pair of fences
NoFencedRegion(r) ==
    LET F == {i \in DOMAIN r : IsFence(r, i)}
    IN  ~ \E o, c \in F : c >= o + 3

\* C6: in generate and fix mode, a reply without a fenced region gives no
\* block, a warning, no per-block file, and a run that ends with status 0;
\* the transcript has been saved with the reply as its content.
C6_NoBlocksIsNotFatal ==
    (/\ mode \in {"generate", "fix"}
     /\ response = "ok"
     /\ pc \in {"save", "loop", "return", "exit"}
     /\ NoFencedRegion(reply)) =>
      LET transcript == OUTPUT_DIR \o <<"/">>
                        \o (IF mode = "fix" THEN <<"f","i","x","_">> ELSE <<"r","e","s","u","l","t","_">>)
                        \o timestamp \o <<".","m","d">>
      IN
      /\ BlockWrites = {}
      /\ \E i \in DOMAIN writes : writes[i].path = transcript
      /\ transcript \in DOMAIN files
      /\ files[transcript] = reply
      /\ pc # "loop"
      /\ pc \in {"return", "exit"} =>
           /\ code_blocks = <<>>
           /\ \E k \in DOMAIN console : console[k] = "no-blocks"
      /\ exit_code \in {Running, 0}
      /\ pc = "exit" => exit_code = 0

\* a fix run whose reply holds only a dangling fence has ended
C6_Witness ==
    /\ mode = "fix"
    /\ pc = "exit"
    /\ response = "ok"
    /\ reply = <<Tick,Tick,Tick," ","d","a","n","g","l","i","n","g">>
    /\ exit_code = 0
    /\ \E k \in DOMAIN console : console[k] = "no-blocks"

\* a required input of the selected mode is absent
RequiredInputMissing ==
    \/ mode = "generate" /\ (PROMPT_FILE \notin cwd \/ PDF_FILE \notin cwd)
    \/ mode = "fix" /\ (ERROR_FILE \notin cwd
                         \/ ~ \E p \in DOMAIN files :
                               Len(p) >= 5 /\ SubSeq(p, Len(p) - 4, Len(p)) = <<".","j","a","v","a">>)
    \/ mode = "debug" /\ (DEBUG_FILE \notin cwd
                           \/ <<".","/","o","u","t","p","u","t","/","r","e","s","u","l","t",".","m","d">> \notin DOMAIN files)

ProblemMessages ==
    {"no-java-files", "error-file-missing", "debug-file-missing",
     "result-file-missing", "traceback"}

\* C7: a run with a required input absent prints a message, ends with
\* status 1 and has sent no request; a run with its inputs present whose
\* request returned ends with status 0.
C7_MissingInputExits1 ==
    /\ RequiredInputMissing =>
         /\ pc = "exit"
         /\ exit_code = 1
         /\ requests = 0
         /\ response = "none"
         /\ console # <<>>
         /\ console[Len(console)] \in ProblemMessages
    /\ (pc = "exit" /\ mode \in {"generate", "fix", "debug"}
        /\ ~RequiredInputMissing /\ response = "ok") => exit_code = 0

\* a fix run that found .java files but no error.txt has ended
C7_Witness ==
    /\ mode = "fix"
    /\ pc = "exit"
    /\ ERROR_FILE \notin cwd
    /\ JavaFiles(files) # {}
    /\ exit_code = 1
    /\ requests = 0

\* C8: at most one request is sent, and exactly one once a generate, fix or
\* debug run has found its inputs; nothing else happens while it is pending;
\* if it fails the process ends with status 1 and has neither sent another
\* request nor written, extracted or saved anything.
C8_SingleRequest ==
    /\ requests <= 1
    /\ (mode \in {"generate", "fix", "debug"} /\ ~RequiredInputMissing)
         => requests = 1
    /\ (response = "pending") = (pc = "request")
    /\ response \in {"pending", "error"} =>
         /\ requests = 1
         /\ writes = <<>>
         /\ code_blocks = <<>>
         /\ spans = <<>>
         /\ timestamp = <<>>
    /\ response = "error" =>
         /\ pc = "exit"
         /\ exit_code = 1
         /\ console[Len(console)] = "traceback"

\* a request has failed and the process has ended
C8_Witness ==
    /\ response = "error"
    /\ pc = "exit"
    /\ requests = 1

Banners == {"help", "fix-mode", "debug-mode"}

\* C9: the mode that runs is the first of --help, --fix, --debug on the
\* command line, generate when none is; only that mode prints; help ends with
\* status 0 having opened no file and sent no request; debug writes nothing
\* but the reply to response.md and extracts no block.
C9_FirstFlagWins ==
    mode # "none" =>
      /\ mode = (IF "--help" \in argv THEN "help"
                 ELSE IF "--fix" \in argv THEN "fix"
                 ELSE IF "--debug" \in argv THEN "debug"
                 ELSE "generate")
      /\ console # <<>>
      /\ console[1] \in (IF mode = "help" THEN {"help"}
                         ELSE IF mode = "fix" THEN {"fix-mode"}
                         ELSE IF mode = "debug" THEN {"debug-mode"}
                         ELSE {"pdf-loaded", "traceback"})
      /\ \A k \in DOMAIN console :
            console[k] \in Banners => (k = 1 /\ mode # "generate")
      /\ mode = "help" =>
           /\ pc = "exit"
           /\ exit_code = 0
           /\ console = <<"help">>
           /\ opened = {}
           /\ requests = 0
           /\ writes = <<>>
      /\ mode = "debug" =>
           /\ code_blocks = <<>>
           /\ spans = <<>>
           /\ pc \notin {"save", "loop", "return"}
           /\ \A i \in DOMAIN writes :
                 /\ writes[i].path = <<".","/","o","u","t","p","u","t","/","r","e","s","p","o","n","s","e",".","m","d">>
                 /\ writes[i].content = reply
           /\ \A k \in DOMAIN console : console[k] # "created"

\* all three flags are given and help has run
C9_Witness ==
    /\ argv = {"--help", "--fix", "--debug"}
    /\ mode = "help"
    /\ pc = "exit"

\* C10: the blocks are written in reply order, each non-empty block once,
\* as its trimmed body and one newline, a whitespace-only block not at all;
\* a write replaces what the file held, so every file holds what was last
\* written to it.
C10_LastWriteWins ==
    /\ \A i, j \in BlockWrites : i < j => writes[i].idx < writes[j].idx
    /\ \A i \in BlockWrites : writes[i].idx < idx
    /\ \A k \in 1..(idx - 1) :
          LET W == {i \in BlockWrites : writes[i].idx = k} IN
          IF \A n \in DOMAIN code_blocks[k] : code_blocks[k][n] \in Whitespace
          THEN W = {}
          ELSE /\ Cardinality(W) = 1
               /\ \A i \in W :
                     \E c \in {SubSeq(writes[i].content, 1, n) :
                                  n \in 0..Len(writes[i].content)} :
                       /\ writes[i].content = c \o <<"\n">>
                       /\ TrimOf(c, code_blocks[k])
    /\ \A p \in DOMAIN files :
          LET W == {i \in DOMAIN writes : writes[i].path = p} IN
          W # {} => files[p] = writes[Max(W)].content

\* a fix run has written two different blocks to the file that existed
\* before the run
C10_Witness ==
    /\ mode = "fix"
    /\ pc = "return"
    /\ \E i, j \in BlockWrites :
          /\ i < j
          /\ writes[i].path = <<".","/","o","u","t","p","u","t","/","F","o","o",".","j","a","v","a">>
          /\ writes[j].path = <<".","/","o","u","t","p","u","t","/","F","o","o",".","j","a","v","a">>
          /\ writes[i].content # writes[j].content
          /\ files[<<".","/","o","u","t","p","u","t","/","F","o","o",".","j","a","v","a">>] = writes[j].content
====
